---- MODULE Spec2Model ----
(***************************************************************************)
(* Model of layoutparser/io/basic.py: the type-dispatching loader          *)
(* load_dict and the tabular adapter load_dataframe.                       *)
(*                                                                         *)
(* JSON-shaped Python values are tagged records:                           *)
(*   [t |-> "str", s |-> ...]      a string                                *)
(*   [t |-> "int", n |-> ...]      an integer                              *)
(*   [t |-> "null"]                None                                    *)
(*   [t |-> "nan"]                 a missing table cell (NaN)              *)
(*   [t |-> "list", items |-> <<...>>]   a list                            *)
(*   [t |-> "dict", d |-> [key |-> value]]   a dict                        *)
(* Outcomes of a call are records tagged "element", "layout" or "raise".   *)
(***************************************************************************)
EXTENDS Integers, Sequences, FiniteSets, TLC

VARIABLES fn, data, df, block_type, result, pc

vars == <<fn, data, df, block_type, result, pc>>

----------------------------------------------------------------------------
(* Bounds of the model *)

MaxLen == 2

MaxRows == 2

----------------------------------------------------------------------------
(* Python values *)

Text(s) == [t |-> "str", s |-> s]

Num(n) == [t |-> "int", n |-> n]

None == [t |-> "null"]

NaN == [t |-> "nan"]

List(items) == [t |-> "list", items |-> items]

Dict(d) == [t |-> "dict", d |-> d]

IsDict(v) == v.t = "dict"

IsList(v) == v.t = "list"

\* `key in data` for a dict
Has(v, key) == key \in DOMAIN v.d

\* lists and dicts are unhashable: looking one up in a dict raises TypeError
Hashable(v) == v.t \notin {"list", "dict"}

----------------------------------------------------------------------------
(* The element model (layoutparser.elements), known here by its contract *)

BASECOORD_ELEMENT_NAMEMAP == {"interval", "rectangle", "quadrilateral"}

TextBlock_features == {"text", "id", "type", "parent", "next", "score"}

\* Layout(blocks, page_data=...)
Layout(blocks, page_data) ==
    [t |-> "layout", blocks |-> blocks, page_data |-> page_data]

\* <registry constructor>.from_dict(data) and TextBlock.from_dict(data)
from_dict(ctor, rec) == [t |-> "element", ctor |-> ctor, data |-> rec]

Raise(exc, msg, val) == [t |-> "raise", exc |-> exc, msg |-> msg, val |-> val]

IsRaise(r) == r.t = "raise"

IsLayout(r) == r.t = "layout"

IsElement(r) == r.t = "element"

\* the `_blocks` attribute: only a Layout has one
get_blocks(r) ==
    IF IsLayout(r) THEN r.blocks
    ELSE Raise("AttributeError", "_blocks", None)

----------------------------------------------------------------------------
(* load_dict *)

\* lines 73-74: data["block_type"] not in BASECOORD_ELEMENT_NAMEMAP
check_block_type(rec) ==
    IF ~Has(rec, "block_type") THEN Raise("KeyError", "block_type", None)
    ELSE IF ~Hashable(rec.d["block_type"])
         THEN Raise("TypeError", "unhashable type", rec.d["block_type"])
    ELSE IF ~(rec.d["block_type"].t = "str"
              /\ rec.d["block_type"].s \in BASECOORD_ELEMENT_NAMEMAP)
         THEN Raise("ValueError", "Invalid block_type", rec.d["block_type"])
    ELSE None

\* line 77 with all() in place of any()
is_textblock_all(rec) == \A ele \in TextBlock_features : Has(rec, ele)

\* line 77
is_textblock(rec) == \E ele \in TextBlock_features : Has(rec, ele)

\* lines 73-82: a mapping without page_data
load_element(rec) ==
    IF check_block_type(rec) # None THEN check_block_type(rec)
    ELSE IF is_textblock(rec) THEN from_dict("TextBlock", rec)
    ELSE from_dict(rec.d["block_type"].s, rec)

\* line 85 with the elements in reverse order
load_list_reversed(loaded) ==
    IF \E i \in 1..Len(loaded) : IsRaise(loaded[i])
    THEN loaded[CHOOSE i \in 1..Len(loaded) :
                  /\ IsRaise(loaded[i])
                  /\ \A j \in 1..(i - 1) : ~IsRaise(loaded[j])]
    ELSE Layout([i \in 1..Len(loaded) |-> loaded[Len(loaded) + 1 - i]], None)

\* line 85 with a failing element skipped instead of ending the load
load_list_skipping(loaded) ==
    Layout(SelectSeq(loaded, LAMBDA r : ~IsRaise(r)), None)

\* line 85: Layout([load_dict(ele) for ele in data]) given each element's
\* outcome; the first exception leaves the comprehension
load_list(loaded) ==
    IF \E i \in 1..Len(loaded) : IsRaise(loaded[i])
    THEN loaded[CHOOSE i \in 1..Len(loaded) :
                  /\ IsRaise(loaded[i])
                  /\ \A j \in 1..(i - 1) : ~IsRaise(loaded[j])]
    ELSE Layout(loaded, None)

\* line 72 placed after the block_type check of line 73
load_page_validated(rec, inner) ==
    IF check_block_type(rec) # None THEN check_block_type(rec)
    ELSE IF IsRaise(inner) THEN inner
    ELSE IF ~IsLayout(inner) THEN get_blocks(inner)
    ELSE Layout(get_blocks(inner), rec.d["page_data"])

\* line 72 given the outcome of load_dict(data["blocks"])
load_page(rec, inner) ==
    IF IsRaise(inner) THEN inner
    ELSE IF ~IsLayout(inner) THEN get_blocks(inner)
    ELSE Layout(get_blocks(inner), rec.d["page_data"])

\* lines 87-88 returning an empty Layout instead of raising
invalid_structure_lenient(v) == Layout(<<>>, None)

\* lines 87-88
invalid_structure(v) == Raise("ValueError", "Invalid input JSON structure.", None)

RECURSIVE load_dict(_)

load_dict(v) ==
    IF IsDict(v) THEN
        IF Has(v, "page_data") THEN
            IF ~Has(v, "blocks") THEN Raise("KeyError", "blocks", None)
            ELSE load_page(v, load_dict(v.d["blocks"]))
        ELSE load_element(v)
    ELSE IF IsList(v) THEN
        load_list([i \in 1..Len(v.items) |-> load_dict(v.items[i])])
    ELSE invalid_structure(v)

----------------------------------------------------------------------------
(* load_dataframe *)

Frame(columns, index, rows) ==
    [t |-> "frame", columns |-> columns, index |-> index, rows |-> rows]

NRows(frame) == Len(frame.rows)

\* pd.isna(x)
isna(cell) == cell.t = "nan"

\* the texts ast.literal_eval accepts, with the value each one denotes
Literals ==
    [s \in {"[[0, 0], [1, 1]]"} |->
        List(<<List(<<Num(0), Num(0)>>), List(<<Num(1), Num(1)>>)>>)]

\* ast.literal_eval(x)
literal_eval(cell) ==
    IF cell.t # "str" THEN Raise("ValueError", "malformed node or string", cell)
    ELSE IF cell.s \in DOMAIN Literals THEN Literals[cell.s]
    ELSE Raise("SyntaxError", "invalid syntax", cell)

\* df["points"].dtype == object: the column holds something that is not a number
dtype_object(frame, col) ==
    \E i \in 1..NRows(frame) : frame.rows[i][col].t \notin {"nan", "int"}

\* line 129, one cell
map_point(cell) == IF isna(cell) THEN cell ELSE literal_eval(cell)

\* lines 128-129
parse_points(frame) ==
    IF "points" \in frame.columns /\ dtype_object(frame, "points") THEN
        LET mapped == [i \in 1..NRows(frame) |-> map_point(frame.rows[i]["points"])]
        IN  IF \E i \in 1..NRows(frame) : mapped[i].t = "raise"
            THEN mapped[CHOOSE i \in 1..NRows(frame) :
                          /\ mapped[i].t = "raise"
                          /\ \A j \in 1..(i - 1) : mapped[j].t # "raise"]
            ELSE Frame(frame.columns, frame.index,
                       [i \in 1..NRows(frame) |->
                          [frame.rows[i] EXCEPT !["points"] = mapped[i]]])
    ELSE frame

\* df[col] = value, value being one per row
set_column(frame, col, values) ==
    Frame(frame.columns \cup {col}, frame.index,
          [i \in 1..NRows(frame) |->
             [c \in frame.columns \cup {col} |->
                IF c = col THEN values[i] ELSE frame.rows[i][c]]])

\* lines 131-135 without the check of line 132
resolve_type_lazy(frame, declared) ==
    IF declared = None THEN frame
    ELSE set_column(frame, "block_type", [i \in 1..NRows(frame) |-> declared])

\* lines 131-135
resolve_type(frame, declared) ==
    IF declared = None THEN
        IF "block_type" \notin frame.columns
        THEN Raise("ValueError",
                   "block_type not specified both in dataframe and arguments", None)
        ELSE frame
    ELSE set_column(frame, "block_type", [i \in 1..NRows(frame) |-> declared])

\* lines 136-137 with range(len(df)) in place of df.index
assign_id_position(frame) ==
    IF (\E col \in frame.columns : col \in TextBlock_features)
       /\ "id" \notin frame.columns
    THEN set_column(frame, "id", [i \in 1..NRows(frame) |-> Num(i - 1)])
    ELSE frame

\* lines 136-137
assign_id(frame) ==
    IF (\E col \in frame.columns : col \in TextBlock_features)
       /\ "id" \notin frame.columns
    THEN set_column(frame, "id", [i \in 1..NRows(frame) |-> Num(frame.index[i])])
    ELSE frame

\* x.dropna().to_dict() for one row
row_to_dict(frame, i) ==
    Dict([c \in {k \in frame.columns : ~isna(frame.rows[i][k])} |-> frame.rows[i][c]])

\* line 138 with the frame an empty apply() would return when it cannot tell
\* that the lambda reduces a row: no list comes out of a table without rows
to_records_frame(frame) ==
    IF NRows(frame) = 0 THEN None
    ELSE List([i \in 1..NRows(frame) |-> row_to_dict(frame, i)])

\* line 138: df.apply(lambda x: x.dropna().to_dict(), axis=1).to_list()
to_records(frame) == List([i \in 1..NRows(frame) |-> row_to_dict(frame, i)])

\* lines 127-137: the table as it stands when the rows are converted, or the
\* exception raised before that
normalize(frame, declared) ==
    LET parsed == parse_points(frame)
    IN  IF IsRaise(parsed) THEN parsed
        ELSE LET typed == resolve_type(parsed, declared)
             IN  IF IsRaise(typed) THEN typed ELSE assign_id(typed)

\* the records handed to load_dict, when the call gets that far
Unset == [t |-> "unset"]

records_of(frame, declared) ==
    LET table == normalize(frame, declared)
    IN  IF IsRaise(table) THEN Unset ELSE to_records(table)

load_dataframe(frame, declared) ==
    LET table == normalize(frame, declared)
    IN  IF IsRaise(table) THEN table ELSE load_dict(to_records(table))

----------------------------------------------------------------------------
(* Inputs *)

SeqsUpTo(S, n) == UNION {[1..k -> S] : k \in 0..n}

Empty == [k \in {} |-> None]

\* a key that is absent, or bound to one of the values
Opt(key, values) == {Empty} \cup {key :> v : v \in values}

BlockTypeValues ==
    {Text("rectangle"), Text("interval"), Text("unknown_x"), None, List(<<>>)}

ElementRecords ==
    {Dict(b @@ x @@ a) : b \in Opt("block_type", BlockTypeValues),
                         x \in Opt("text", {Text("hello")}),
                         a \in Opt("x_1", {Num(0)})}

Scalars == {Text("abc"), Num(7), None}

Items == ElementRecords \cup Scalars

FlatLists == {List(s) : s \in SeqsUpTo(Items, MaxLen)}

PageData == Dict("width" :> Num(10))

Rectangle == Dict("block_type" :> Text("rectangle"))

InnerPage == Dict(("page_data" :> None) @@ ("blocks" :> List(<<Rectangle>>)))

Wrappers ==
    {Dict(("page_data" :> PageData) @@ b @@ x) :
        b \in Opt("blocks", FlatLists \cup {Rectangle, InnerPage, Text("abc")}),
        x \in Opt("block_type", {Text("unknown_x")})}

Nested ==
    {List(<<>>), List(<<Rectangle>>), List(<<Text("abc")>>), Rectangle, InnerPage,
     Dict(("page_data" :> PageData) @@ ("blocks" :> List(<<Num(7)>>)))}

DeepLists == {List(s) : s \in SeqsUpTo(Nested, MaxLen)}

DfColumns == {"block_type", "text", "id", "points"}

Cells ==
    [block_type |-> {Text("rectangle"), Text("unknown_x")},
     text |-> {Text("hello"), NaN},
     id |-> {Num(7), NaN},
     points |-> {Text("[[0, 0], [1, 1]]"), Text("[[0, 0], [1"), NaN}]

\* the cells of one column of a row: none when the table lacks the column
CellsOf(columns, col) ==
    IF col \in columns THEN {col :> v : v \in Cells[col]} ELSE {Empty}

RowsOver(columns) ==
    {b @@ x @@ i @@ p : b \in CellsOf(columns, "block_type"),
                        x \in CellsOf(columns, "text"),
                        i \in CellsOf(columns, "id"),
                        p \in CellsOf(columns, "points")}

\* index labels of a table of n rows: the default 0..n-1, or what is left of
\* one after rows were filtered out
Indexes(n) ==
    {ix \in [1..n -> 0..MaxRows] : \A i \in 1..n : \A j \in 1..n : i < j => ix[i] < ix[j]}

\* the tables of n rows over the given columns
Frames(columns, n) ==
    {Frame(columns, ix, rows) :
        ix \in Indexes(n), rows \in [1..n -> RowsOver(columns)]}

DeclaredTypes == {None, Text("rectangle"), Text("unknown_x")}

NoFrame == Frame({}, <<>>, <<>>)

----------------------------------------------------------------------------
(* The calls *)

Init ==
    /\ pc = "start"
    /\ result = Unset
    /\ \/ /\ fn = "load_dict"
          /\ \/ data \in Items
             \/ data \in FlatLists
             \/ data \in Wrappers
             \/ data \in DeepLists
          /\ df = NoFrame
          /\ block_type = None
       \/ /\ fn = "load_dataframe"
          /\ data = Unset
          /\ \E columns \in SUBSET DfColumns : \E n \in 0..MaxRows :
                df \in Frames(columns, n)
          /\ block_type \in DeclaredTypes

call_load_dict ==
    /\ pc = "start"
    /\ fn = "load_dict"
    /\ result' = load_dict(data)
    /\ pc' = "done"
    /\ UNCHANGED <<fn, data, df, block_type>>

call_load_dataframe ==
    /\ pc = "start"
    /\ fn = "load_dataframe"
    /\ data' = records_of(df, block_type)
    /\ result' = load_dataframe(df, block_type)
    /\ pc' = "done"
    /\ UNCHANGED <<fn, df, block_type>>

Next == call_load_dict \/ call_load_dataframe

Spec == Init /\ [][Next]_vars

----------------------------------------------------------------------------
(* Vocabulary of the properties *)

Done(f) == pc = "done" /\ fn = f

\* a mapping that is a single element record, not a page wrapper
IsRecord(v) == IsDict(v) /\ ~Has(v, "page_data")

IsWrapper(v) == IsDict(v) /\ Has(v, "page_data")

InRegistry(v) == v.t = "str" /\ v.s \in BASECOORD_ELEMENT_NAMEMAP

ValidRecord(v) == IsRecord(v) /\ Has(v, "block_type") /\ InRegistry(v.d["block_type"])

HasTextFeature(v) == DOMAIN v.d \cap TextBlock_features # {}

UnknownVariantError(value) == Raise("ValueError", "Invalid block_type", value)

MalformedInputError == Raise("ValueError", "Invalid input JSON structure.", None)

MissingTypeError ==
    Raise("ValueError", "block_type not specified both in dataframe and arguments", None)

\* a validation failure of the loader: an unknown block type or a malformed input
ValidationFailure(v) ==
    \/ ~IsDict(v) /\ ~IsList(v)
    \/ IsRecord(v) /\ Has(v, "block_type") /\ ~InRegistry(v.d["block_type"])

\* every value the recursion visits below (and including) v
RECURSIVE Positions(_)

Positions(v) ==
    {v} \cup
    (IF IsList(v) THEN UNION {Positions(v.items[i]) : i \in 1..Len(v.items)}
     ELSE IF IsWrapper(v) /\ Has(v, "blocks") THEN Positions(v.d["blocks"])
     ELSE {})

\* the position is below the top-level input
Below(v) == Positions(v) \ {v}

\* an error starts at p (it is not one handed up from below p)
Origin(p) == \A q \in Below(p) : ~IsRaise(load_dict(q))

----------------------------------------------------------------------------
(* C1: a mapping without page_data whose block_type is present but is no   *)
(* key of the registry fails with the unknown-variant ValueError naming the *)
(* offending value, whether or not it carries text-block features.          *)

C1_UnknownBlockTypeIsValueError ==
    (Done("load_dict") /\ IsRecord(data) /\ Has(data, "block_type")
       /\ ~InRegistry(data.d["block_type"]))
    => result = UnknownVariantError(data.d["block_type"])

(* C9: a mapping without page_data and without any block_type key fails    *)
(* with the same invalid/unknown block type error as an unregistered type.  *)

C9_MissingBlockTypeIsValueError ==
    (Done("load_dict") /\ IsRecord(data) /\ ~Has(data, "block_type"))
    => (result.t = "raise" /\ result.exc = "ValueError"
        /\ result.msg = "Invalid block_type")

(* C2: a mapping with page_data is loaded by the page-wrapper rule before   *)
(* any other rule (its own block_type is never validated): the result is a  *)
(* Collection of the elements loaded from the nested blocks list, in order, *)
(* carrying the wrapper's page_data, which is merged into no element.       *)

C2_PageWrapper ==
    (Done("load_dict") /\ IsWrapper(data) /\ Has(data, "blocks")
       /\ IsList(data.d["blocks"])
       /\ \A i \in 1..Len(data.d["blocks"].items) :
            ValidRecord(data.d["blocks"].items[i]))
    => /\ IsLayout(result)
       /\ result.page_data = data.d["page_data"]
       /\ Len(result.blocks) = Len(data.d["blocks"].items)
       /\ \A i \in 1..Len(result.blocks) :
            /\ result.blocks[i] = load_dict(data.d["blocks"].items[i])
            /\ IsElement(result.blocks[i])
            /\ result.blocks[i].data = data.d["blocks"].items[i]

C2_Witness ==
    /\ Done("load_dict") /\ IsWrapper(data) /\ Has(data, "block_type")
    /\ Has(data, "blocks") /\ IsList(data.d["blocks"])
    /\ IsLayout(result) /\ Len(result.blocks) = 2
    /\ result.blocks[1] # result.blocks[2]
    /\ result.page_data = PageData

(* C3: a list of valid element records loads as a Collection without page  *)
(* metadata, of the same length, whose i-th element is the i-th record      *)
(* loaded.                                                                  *)

C3_ListOrder ==
    (Done("load_dict") /\ IsList(data)
       /\ \A i \in 1..Len(data.items) : ValidRecord(data.items[i]))
    => /\ IsLayout(result)
       /\ result.page_data = None
       /\ Len(result.blocks) = Len(data.items)
       /\ \A i \in 1..Len(data.items) :
            /\ result.blocks[i] = load_dict(data.items[i])
            /\ IsElement(result.blocks[i])
            /\ result.blocks[i].data = data.items[i]

C3_Witness ==
    /\ Done("load_dict") /\ IsList(data) /\ Len(data.items) = 2
    /\ \A i \in 1..2 : ValidRecord(data.items[i])
    /\ data.items[1] # data.items[2]
    /\ IsLayout(result) /\ Len(result.blocks) = 2

(* C4: a mapping without page_data whose block_type is a registry key is    *)
(* built by the TextBlock constructor when it holds any attribute of the    *)
(* TextBlock feature set, and by the registry constructor of its block_type *)
(* otherwise; a record whose block_type is not valid never loads, text      *)
(* features or not.                                                         *)

C4_Discrimination ==
    (Done("load_dict") /\ IsRecord(data))
    => /\ (ValidRecord(data) /\ HasTextFeature(data))
            => result = from_dict("TextBlock", data)
       /\ (ValidRecord(data) /\ ~HasTextFeature(data))
            => result = from_dict(data.d["block_type"].s, data)
       /\ ~ValidRecord(data) => IsRaise(result)

C4_Witness ==
    /\ Done("load_dict") /\ ValidRecord(data) /\ HasTextFeature(data)
    /\ data.d["block_type"] = Text("rectangle")
    /\ IsElement(result) /\ result.ctor = "TextBlock"

(* C5: an input that is neither a mapping nor a list fails with the         *)
(* malformed-input ValueError and yields no result.                         *)

C5_Malformed ==
    (Done("load_dict") /\ ~IsDict(data) /\ ~IsList(data))
    => result = MalformedInputError

C5_Witness ==
    Done("load_dict") /\ data = Text("abc") /\ result = MalformedInputError

(* C10: loading is all-or-nothing: when any position of a list, or of the   *)
(* blocks nested in a page wrapper, triggers a validation failure, the      *)
(* top-level call fails with an error raised at some position below it and  *)
(* handed up unchanged, and returns no partial Collection.                  *)

C10_AllOrNothing ==
    (Done("load_dict") /\ \E p \in Below(data) : ValidationFailure(p))
    => /\ IsRaise(result)
       /\ \E p \in Below(data) : Origin(p) /\ result = load_dict(p)

C10_Witness ==
    /\ Done("load_dict") /\ IsWrapper(data) /\ Has(data, "blocks")
    /\ IsList(data.d["blocks"]) /\ Len(data.d["blocks"].items) = 2
    /\ ValidRecord(data.d["blocks"].items[1])
    /\ ValidationFailure(data.d["blocks"].items[2])
    /\ IsRaise(result)

----------------------------------------------------------------------------
(* Properties of load_dataframe *)

NoDeclaredType == block_type = None /\ "block_type" \notin df.columns

\* some cell of the points column is a text that is no literal
PointsUnparsable ==
    /\ "points" \in df.columns
    /\ \E i \in 1..NRows(df) :
         /\ df.rows[i]["points"].t = "str"
         /\ df.rows[i]["points"].s \notin DOMAIN Literals

PointsError(r) == IsRaise(r) /\ r.msg \in {"invalid syntax", "malformed node or string"}

HasFeatureColumn == df.columns \cap TextBlock_features # {}

EmptyCollection == Layout(<<>>, None)

(* C6 as written: without a declared type and without a block_type column   *)
(* the call fails with the missing-type error before any row is converted.  *)

C6_MissingTypeAlways ==
    (Done("load_dataframe") /\ NoDeclaredType)
    => (result = MissingTypeError /\ data = Unset)

(* C6, amended: without a declared type and without a block_type column no  *)
(* row is converted or handed to the loader, and the call fails with the    *)
(* missing-type error unless parsing the points column, which comes first,  *)
(* has already failed (then it fails with that parsing error); with a       *)
(* declared type or a block_type column no missing-type error is raised.    *)

C6_MissingTypeBeforeRows ==
    Done("load_dataframe")
    => /\ NoDeclaredType =>
            /\ data = Unset
            /\ IF PointsUnparsable THEN PointsError(result)
               ELSE result = MissingTypeError
       /\ ~NoDeclaredType => result # MissingTypeError

C6_Witness ==
    /\ Done("load_dataframe") /\ NoDeclaredType /\ NRows(df) = 2
    /\ "text" \in df.columns
    /\ result = MissingTypeError /\ data = Unset

(* C7 as written: with a feature column and no id column every element     *)
(* gets the 0-based position of its row as id, whatever the index labels.   *)

C7_IdIsRowPosition ==
    (Done("load_dataframe") /\ HasFeatureColumn /\ "id" \notin df.columns
       /\ IsLayout(result))
    => \A i \in 1..Len(result.blocks) : result.blocks[i].data.d["id"] = Num(i - 1)

(* C7, amended: with a feature column and no id column every element gets   *)
(* as id the index label of its row (the 0-based row position only under    *)
(* the default 0..n-1 index); an existing id column is left as it is (a    *)
(* row whose id cell is missing gets none), and without a feature column    *)
(* no id is synthesized.                                                    *)

C7_IdIsIndexLabel ==
    (Done("load_dataframe") /\ IsLayout(result))
    => /\ Len(result.blocks) = NRows(df)
       /\ \A i \in 1..Len(result.blocks) :
            /\ (HasFeatureColumn /\ "id" \notin df.columns)
                 => result.blocks[i].data.d["id"] = Num(df.index[i])
            /\ ("id" \in df.columns /\ ~isna(df.rows[i]["id"]))
                 => result.blocks[i].data.d["id"] = df.rows[i]["id"]
            /\ ("id" \in df.columns /\ isna(df.rows[i]["id"]))
                 => ~Has(result.blocks[i].data, "id")
            /\ ~HasFeatureColumn => ~Has(result.blocks[i].data, "id")

C7_Witness ==
    /\ Done("load_dataframe") /\ HasFeatureColumn /\ "id" \notin df.columns
    /\ IsLayout(result) /\ Len(result.blocks) = 2
    /\ df.index # <<0, 1>>
    /\ result.blocks[2].data.d["id"] = Num(df.index[2])

(* C8 as written: every table of zero rows yields an empty sequence of      *)
(* records and loads as an empty Collection without any error.              *)

C8_EmptyTableAlwaysLoads ==
    (Done("load_dataframe") /\ NRows(df) = 0)
    => (data = List(<<>>) /\ result = EmptyCollection)

(* C8, amended: a table of zero rows that has a block_type column, or is    *)
(* loaded with a declared type, yields an empty sequence of records and     *)
(* loads as an empty Collection (no elements, no page metadata) without any *)
(* error; without both, the call fails with the missing-type error.         *)

C8_EmptyTableLoads ==
    (Done("load_dataframe") /\ NRows(df) = 0)
    => IF NoDeclaredType THEN result = MissingTypeError
       ELSE data = List(<<>>) /\ result = EmptyCollection

C8_Witness ==
    /\ Done("load_dataframe") /\ NRows(df) = 0 /\ block_type = None
    /\ df.columns = {"block_type", "text", "points"}
    /\ data = List(<<>>) /\ result = EmptyCollection

====
